---- MODULE Spec2Model ----
(***************************************************************************)
(* Model of src/main.py: a Streamlit chat page.  Every browser session     *)
(* runs the script top to bottom on each interaction; the transcript lives *)
(* in that session's st.session_state.chat_history, while the memoization  *)
(* cache of query_openrouter (st.cache_data) is shared by all sessions of  *)
(* the process.                                                            *)
(*                                                                         *)
(* Strings are modelled as sequences of tokens, so that "the string        *)
(* contains X" is "X is one of its tokens" and formatting is concatenation.*)
(***************************************************************************)
EXTENDS Integers, Sequences, FiniteSets, Bags, TLC

\* ---------------------------------------------------------------- bounds
\* Submissions made, over all sessions, before the model stops exploring.
MaxSubmissions == 2

\* Browser sessions served by the one Streamlit process.
Sessions == {"s1", "s2"}

\* Texts a user may type into st.chat_input (non-empty, so truthy).
Prompts == {"Hello", "Bye"}

\* ------------------------------------------------------ program constants
\* src/main.py:27-33
MODELS ==
    ("LLaMA 3 (8B)"     :> "meta-llama/llama-3-8b-instruct") @@
    ("DeepSeek R1"      :> "deepseek/deepseek-r1") @@
    ("DeepSeek Chat V3" :> "deepseek/deepseek-chat-v3-0324") @@
    ("Gemma 3 27B"      :> "google/gemma-3-27b-it") @@
    ("Mistral Small"    :> "mistralai/devstral-small")

\* src/main.py:72  list(MODELS.keys()); st.selectbox preselects the first.
ModelNames == DOMAIN MODELS
DefaultModelName == "LLaMA 3 (8B)"

\* Labels the modelled users pick in the sidebar (a subset keeps the state
\* space small; the other labels behave alike).
PickedModelNames == {"LLaMA 3 (8B)", "DeepSeek R1"}

\* src/main.py:49
url == "https://openrouter.ai/api/v1/chat/completions"

\* -------------------------------------------------------------- JSON values
Dict(items) == [type |-> "dict", items |-> items]
List(items) == [type |-> "list", items |-> items]
Str(s)      == [type |-> "str",  items |-> <<s>>]
Null        == [type |-> "null", items |-> <<>>]

\* Outcome of evaluating an expression: a value, or a raised exception.
Value(v)   == [ok |-> TRUE,  val |-> v,    exc |-> "none"]
Raised(e)  == [ok |-> FALSE, val |-> Null, exc |-> e]

\* Python's v[key] for a string key (src/main.py:63).
GetKey(r, key) ==
    IF ~r.ok THEN r
    ELSE IF r.val.type = "dict"
         THEN IF key \in DOMAIN r.val.items THEN Value(r.val.items[key])
                                            ELSE Raised("KeyError")
         ELSE Raised("TypeError")

\* Python's v[i] for an integer index, 0-based (src/main.py:63).
GetIndex(r, i) ==
    IF ~r.ok THEN r
    ELSE IF r.val.type = "list"
         THEN IF i + 1 \in 1..Len(r.val.items) THEN Value(r.val.items[i + 1])
                                               ELSE Raised("IndexError")
         ELSE IF r.val.type = "dict" THEN Raised("KeyError")
         ELSE Raised("TypeError")

\* ------------------------------------------------------ what the endpoint sends
\* Raw response bodies (response.text) the endpoint may send; all of them
\* are JSON documents.
GoodText         == "{choices:[{message:{content:Hi!}}]}"
NoChoicesText    == "{error:{message:oops}}"
EmptyChoicesText == "{choices:[]}"
NoMessageText    == "{choices:[{index:0}]}"
NoContentText    == "{choices:[{message:{role:assistant}}]}"
NullMessageText  == "{choices:[{message:null}]}"

BodyTexts == {GoodText, NoChoicesText, EmptyChoicesText, NoMessageText,
              NoContentText, NullMessageText}

\* response.json() for the bodies above.
Json(text) ==
    CASE text = GoodText ->
           Dict("choices" :> List(<<Dict("message" :> Dict("content" :> Str("Hi!")))>>))
      [] text = NoChoicesText ->
           Dict("error" :> Dict("message" :> Str("oops")))
      [] text = EmptyChoicesText ->
           Dict("choices" :> List(<<>>))
      [] text = NoMessageText ->
           Dict("choices" :> List(<<Dict("index" :> Str("0"))>>))
      [] text = NoContentText ->
           Dict("choices" :> List(<<Dict("message" :> Dict("role" :> Str("assistant")))>>))
      [] text = NullMessageText ->
           Dict("choices" :> List(<<Dict("message" :> Null)>>))
      [] OTHER -> Null

Reason(status_code) == IF status_code = 200 THEN "OK" ELSE "Internal Server Error"

\* The local variable `response` of query_openrouter: unbound until
\* requests.post has returned.
Unbound == [bound |-> FALSE, status_code |-> 0, reason |-> "", text |-> ""]
Response(status_code, text) ==
    [bound |-> TRUE, status_code |-> status_code,
     reason |-> Reason(status_code), text |-> text]

\* What requests.post can do: return a response, or raise because no
\* response was received at all (requests.exceptions.ConnectionError).
Outcomes ==
    {Unbound} \cup {Response(200, t) : t \in BodyTexts} \cup {Response(500, NoChoicesText)}

\* ------------------------------------------------------------------ strings
\* src/main.py:65  the f-string; str(status_code) is ToString.  (The leading
\* cross-mark emoji of both error strings is left out of the first token.)
ApiErrorString(response) ==
    << "API Error: ", ToString(response.status_code), " ", response.reason,
       " for url: ", url, "Details: ", response.text >>

\* src/main.py:67
ParseErrorString == << "Error: Could not parse API response or unexpected format." >>

Contains(string, token) == \E i \in 1..Len(string) : string[i] = token

\* ------------------------------------------------------- query_openrouter
Return(string) == [returned |-> TRUE,  value |-> string, exc |-> "none"]
Raise(e)       == [returned |-> FALSE, value |-> <<>>,   exc |-> e]

\* src/main.py:62  response.raise_for_status()
RaisesForStatus(response) == response.status_code >= 400 /\ response.status_code < 600

\* src/main.py:63  response.json()["choices"][0]["message"]["content"]
Content(response) ==
    GetKey(GetKey(GetIndex(GetKey(Value(Json(response.text)), "choices"), 0),
                  "message"), "content")

\* The handler missing: the RequestException propagates.
OnRequestExceptionReraised(response) == Raise("RequestException")

\* src/main.py:64-65  the handler of requests.exceptions.RequestException.
\* It formats the local `response`, which is unbound when requests.post
\* itself raised: evaluating it raises UnboundLocalError out of the function.
OnRequestException(response) ==
    IF response.bound THEN Return(ApiErrorString(response))
                      ELSE Raise("UnboundLocalError")

\* src/main.py:66-67  except KeyError; any other exception propagates.
OnOtherException(exc) ==
    IF exc = "KeyError" THEN Return(ParseErrorString) ELSE Raise(exc)

\* src/main.py:60-67  the try block, given what requests.post did: it
\* raised (a ConnectionError, which is a RequestException) and left
\* `response` unbound, or it bound `response`.
TryBlock(response) ==
    IF ~response.bound THEN OnRequestException(response)
    ELSE IF RaisesForStatus(response) THEN OnRequestException(response)
    ELSE LET c == Content(response) IN
         IF c.ok THEN Return(c.val.items) ELSE OnOtherException(c.exc)

\* -------------------------------------------------------------------- state
VARIABLES
    initialized,          \* sessions whose st.session_state has "chat_history"
    chat_history,         \* st.session_state.chat_history of each session
    selected_model_name,  \* the sidebar selectbox of each session
    pc,                   \* "idle", or "awaiting_reply" inside line 129
    call,                 \* the session's query_openrouter call and its arguments
    response,             \* the local `response` of that call
    inflight,             \* HTTP requests posted whose call has not finished
    cache,                \* the st.cache_data store of query_openrouter
    posts,                \* bag: HTTP requests issued per (model_id, messages)
    fault,                \* the exception that ended the session's latest run
    submitted             \* submissions each session has made

vars == << initialized, chat_history, selected_model_name, pc, call,
           response, inflight, cache, posts, fault, submitted >>

Turn(role, content) == [role |-> role, content |-> content]

NoCall == [state |-> "none", model_id |-> "", messages |-> <<>>]

Init ==
    /\ initialized = {}
    /\ chat_history = [s \in Sessions |-> <<>>]
    /\ selected_model_name = [s \in Sessions |-> DefaultModelName]
    /\ pc = [s \in Sessions |-> "idle"]
    /\ call = [s \in Sessions |-> NoCall]
    /\ response = [s \in Sessions |-> Unbound]
    /\ inflight = {}
    /\ cache = {}
    /\ posts = EmptyBag
    /\ fault = [s \in Sessions |-> "none"]
    /\ submitted = [s \in Sessions |-> 0]

RECURSIVE Sum(_, _)
Sum(f, S) == IF S = {} THEN 0
             ELSE LET x == CHOOSE x \in S : TRUE IN f[x] + Sum(f, S \ {x})

\* The initialisation without its guard: every run starts an empty transcript.
InitHistoryUnguarded(s) == <<>>

\* src/main.py:105-106  the transcript a run works on.
InitHistory(s) == IF s \in initialized THEN chat_history[s] ELSE <<>>

\* A submission accepted while the previous one still awaits its reply.
CanSubmitWhileAwaiting(s) == TRUE

\* src/main.py:115-118  st.chat_input yields a text only to the run that the
\* submission started, and a session's runs do not overlap.
CanSubmit(s) == pc[s] = "idle"

\* src/main.py:120
AppendPrompt(history, prompt) == Append(history, Turn("user", <<prompt>>))

\* Only the newest turn passed instead of the transcript.
MessagesLastTurnOnly(history) == << history[Len(history)] >>

\* src/main.py:129  the messages argument is the session's whole transcript.
Messages(history) == history

\* A key made of the model and the newest turn only.
CacheKeyLastTurnOnly(model_id, messages) == << model_id, messages[Len(messages)] >>

\* src/main.py:36  st.cache_data keys an entry by the values of the arguments.
CacheKey(model_id, messages) == << model_id, messages >>

Hits(model_id, messages) ==
    { e \in cache : e.key = CacheKey(model_id, messages) }

\* src/main.py:36  a returned string is memoized under the call's key.
Memoize(store, model_id, messages, value, s) ==
    store \cup {[key |-> CacheKey(model_id, messages), value |-> value,
                 model_id |-> model_id, messages |-> messages, by |-> s]}

\* src/main.py:132
AppendReply(history, reply) == Append(history, Turn("assistant", reply))

\* A run without chat input (page load, or a rerun): lines 104-115 only.
Rerun(s) ==
    /\ pc[s] = "idle"
    /\ initialized' = initialized \cup {s}
    /\ chat_history' = [chat_history EXCEPT ![s] = InitHistory(s)]
    /\ fault' = [fault EXCEPT ![s] = "none"]

\* The first page load of a session.
Load(s) ==
    /\ s \notin initialized
    /\ Rerun(s)
    /\ UNCHANGED << selected_model_name, pc, call, response, inflight,
                    cache, posts, submitted >>

\* src/main.py:72-73  the user picks a model; the script reruns.
SelectModel(s, name) ==
    /\ s \in initialized
    /\ Rerun(s)
    /\ name # selected_model_name[s]
    /\ selected_model_name' = [selected_model_name EXCEPT ![s] = name]
    /\ UNCHANGED << pc, call, response, inflight, cache, posts, submitted >>

\* src/main.py:76  the user flips the toggle; the script reruns.  The
\* toggle's value feeds only the colours of lines 84-102, which are no part
\* of this model, so the step is the rerun alone.
ToggleDarkMode(s) ==
    /\ s \in initialized
    /\ Rerun(s)
    /\ UNCHANGED << selected_model_name, pc, call, response, inflight, cache,
                    posts, submitted >>

\* src/main.py:104-129  a run with chat input, up to the entry of
\* query_openrouter.
Submit(s, prompt) ==
    /\ s \in initialized
    /\ CanSubmit(s)
    /\ Sum(submitted, Sessions) < MaxSubmissions
    /\ LET history == AppendPrompt(InitHistory(s), prompt) IN
       /\ chat_history' = [chat_history EXCEPT ![s] = history]
       /\ call' = [call EXCEPT ![s] =
                     [state |-> "pending",
                      model_id |-> MODELS[selected_model_name[s]],
                      messages |-> Messages(history)]]
    /\ pc' = [pc EXCEPT ![s] = "awaiting_reply"]
    /\ fault' = [fault EXCEPT ![s] = "none"]
    /\ submitted' = [submitted EXCEPT ![s] = @ + 1]
    /\ UNCHANGED << initialized, selected_model_name, response,
                    inflight, cache, posts >>

\* src/main.py:36, 129-132  the cache has the pair: the memoized string is
\* the reply, and no request is made.
CallHit(s) ==
    /\ call[s].state = "pending"
    /\ \E e \in Hits(call[s].model_id, call[s].messages) :
         chat_history' = [chat_history EXCEPT ![s] = AppendReply(@, e.value)]
    /\ call' = [call EXCEPT ![s] = NoCall]
    /\ pc' = [pc EXCEPT ![s] = "idle"]
    /\ UNCHANGED << initialized, selected_model_name, response,
                    inflight, cache, posts, fault, submitted >>

\* src/main.py:36, 55-61  the cache lacks the pair: the body runs and posts
\* the request.  st.cache_data computes one value per key at a time.
CallMiss(s) ==
    /\ call[s].state = "pending"
    /\ Hits(call[s].model_id, call[s].messages) = {}
    /\ \A r \in inflight :
         CacheKey(r.model_id, r.messages) # CacheKey(call[s].model_id, call[s].messages)
    /\ inflight' = inflight \cup
         {[session |-> s, model_id |-> call[s].model_id, messages |-> call[s].messages]}
    /\ posts' = posts (+) SetToBag({[model_id |-> call[s].model_id,
                                     messages |-> call[s].messages]})
    /\ call' = [call EXCEPT ![s].state = "posted"]
    /\ UNCHANGED << initialized, chat_history, selected_model_name, pc, response, cache, fault, submitted >>

\* src/main.py:61  requests.post ends: it binds `response`, or it raises
\* (outcome Unbound) and leaves the local unbound.
HttpReturn(s, outcome) ==
    /\ call[s].state = "posted"
    /\ response' = [response EXCEPT ![s] = outcome]
    /\ call' = [call EXCEPT ![s].state = "answered"]
    /\ UNCHANGED << initialized, chat_history, selected_model_name, pc, inflight, cache, posts, fault, submitted >>

\* src/main.py:62-67, 129-132  the rest of the call and of the run: the
\* function returns a string, which is memoized and appended as the reply,
\* or it raises, which ends the run where it stands.
Finish(s) ==
    /\ call[s].state = "answered"
    /\ \E r \in inflight :
         /\ r.session = s
         /\ inflight' = inflight \ {r}
         /\ LET result == TryBlock(response[s]) IN
            IF result.returned
            THEN /\ cache' = Memoize(cache, r.model_id, r.messages, result.value, s)
                 /\ chat_history' = [chat_history EXCEPT ![s] =
                                       AppendReply(@, result.value)]
                 /\ fault' = fault
            ELSE /\ fault' = [fault EXCEPT ![s] = result.exc]
                 /\ UNCHANGED << cache, chat_history >>
    /\ response' = [response EXCEPT ![s] = Unbound]
    /\ call' = [call EXCEPT ![s] = NoCall]
    /\ pc' = [pc EXCEPT ![s] = "idle"]
    /\ UNCHANGED << initialized, selected_model_name, posts, submitted >>

Next ==
    \/ \E s \in Sessions : Load(s)
    \/ \E s \in Sessions, name \in PickedModelNames : SelectModel(s, name)
    \/ \E s \in Sessions : ToggleDarkMode(s)
    \/ \E s \in Sessions, prompt \in Prompts : Submit(s, prompt)
    \/ \E s \in Sessions : CallHit(s)
    \/ \E s \in Sessions : CallMiss(s)
    \/ \E s \in Sessions, outcome \in Outcomes : HttpReturn(s, outcome)
    \/ \E s \in Sessions : Finish(s)

Spec == Init /\ [][Next]_vars

\* ------------------------------------------------------------------ claims
IsPrefix(p, q) == Len(p) <= Len(q) /\ SubSeq(q, 1, Len(p)) = p

Alternates(history) ==
    \A i \in 1..Len(history) :
        history[i].role = IF i % 2 = 1 THEN "user" ELSE "assistant"

PairOf(model_id, messages) == [model_id |-> model_id, messages |-> messages]

Is2xx(resp) == resp.status_code >= 200 /\ resp.status_code < 300

\* Bodies of the success shape with one expected field missing: no choices
\* field, no first choice, no message, no content.
MissingFieldTexts == {NoChoicesText, EmptyChoicesText, NoMessageText, NoContentText}

\* C1: once a session's N submissions have been processed, its transcript
\* holds exactly 2N turns, alternating user, assistant, ... from user.
C1_TwoNTurnsAlternating ==
    \A s \in Sessions :
        pc[s] = "idle" =>
            /\ Len(chat_history[s]) = 2 * submitted[s]
            /\ Alternates(chat_history[s])

\* C2: no exception ever escapes query_openrouter: whatever the HTTP call
\* did, no run of any session is ended by one.
C2_NoFaultEscapes == \A s \in Sessions : fault[s] = "none"

\* C3: for every (model_id, turns) pair the number of HTTP requests issued
\* stays at one, however many calls are made with that pair.
C3_OneRequestPerPair ==
    \A k \in BagToSet(posts) : CopiesIn(k, posts) <= 1

\* C4 as claimed: every call made after a turn was appended is a cache miss
\* that issues a fresh request.
C4_AlwaysMiss ==
    [][ \A s \in Sessions :
          (call[s].state = "pending" /\ call'[s] # call[s])
              => (call'[s].state = "posted" /\ posts' # posts) ]_vars

\* C4 as amended: the call made after a turn was appended is served from the
\* cache only by an entry memoized for exactly the present (model_id,
\* transcript) pair, which another session computed; otherwise it issues a
\* fresh request.  It is never served an entry of an earlier transcript.
C4_NeverStale ==
    [][ \A s \in Sessions :
          (call[s].state = "pending" /\ call'[s] # call[s]) =>
              LET exact == { e \in cache :
                               /\ e.model_id = MODELS[selected_model_name[s]]
                               /\ e.messages = chat_history[s] }
              IN  IF exact = {}
                  THEN /\ call'[s].state = "posted"
                       /\ posts' = posts (+) SetToBag({PairOf(
                              MODELS[selected_model_name[s]], chat_history[s])})
                  ELSE /\ posts' = posts
                       /\ \E e \in exact :
                            /\ e.by # s
                            /\ chat_history'[s] =
                                 Append(chat_history[s], Turn("assistant", e.value)) ]_vars

\* A session was served another session's memoized reply for its own pair,
\* which was requested once.
C4_Witness ==
    /\ \E s \in Sessions : \E e \in cache :
         /\ e.by # s
         /\ chat_history[s] = Append(e.messages, Turn("assistant", e.value))
         /\ CopiesIn(PairOf(e.model_id, e.messages), posts) = 1
         /\ submitted[s] = 1

C6_MissingFieldParseError ==
    [][ \A s \in Sessions :
          (/\ call[s].state = "answered"
           /\ response[s].bound
           /\ Is2xx(response[s])
           /\ response[s].text \in MissingFieldTexts
           /\ call'[s] # call[s]) =>
              /\ fault'[s] = "none"
              /\ chat_history'[s] =
                   Append(chat_history[s], Turn("assistant", ParseErrorString)) ]_vars

\* C7: the messages of every call, and of every request posted, are the
\* session's whole transcript: the turns stored before the submission
\* followed by the user turn just submitted.
C7_FullHistoryPassed ==
    [][ \A s \in Sessions :
          /\ (call[s].state = "none" /\ call'[s].state = "pending") =>
                /\ \E prompt \in Prompts :
                     call'[s].messages =
                        Append(chat_history[s], Turn("user", <<prompt>>))
                /\ call'[s].messages = chat_history'[s]
          /\ (call[s].state = "pending" /\ call'[s].state = "posted") =>
                \E r \in inflight' \ inflight :
                    /\ r.session = s
                    /\ r.messages = chat_history[s]
                    /\ r.messages[Len(r.messages)].role = "user" ]_vars

\* A request in flight carries a transcript of three turns whose second is
\* an error string.
C7_Witness ==
    \E r \in inflight :
        /\ Len(r.messages) = 3
        /\ r.messages = chat_history[r.session]
        /\ r.messages[2].role = "assistant"
        /\ r.messages[2].content \in {ParseErrorString, ApiErrorString(Response(500, NoChoicesText))}

C9_LeavesWithReply ==
    [][ \A s \in Sessions :
          (pc[s] = "awaiting_reply" /\ pc'[s] # "awaiting_reply") =>
              /\ pc'[s] = "idle"
              /\ Len(chat_history'[s]) = Len(chat_history[s]) + 1
              /\ chat_history'[s][Len(chat_history'[s])].role = "assistant" ]_vars

\* C10: every step leaves each session's previous transcript an unchanged
\* prefix of its new one.
C10_AppendOnly ==
    [][ \A s \in Sessions : IsPrefix(chat_history[s], chat_history'[s]) ]_vars

\* A session with an answered submission has since changed its model.
C10_Witness ==
    \E s \in Sessions :
        /\ Len(chat_history[s]) >= 2
        /\ selected_model_name[s] # DefaultModelName
        /\ \E e \in cache : e.by = s /\ e.model_id = MODELS[DefaultModelName]

====
